---- MODULE Spec2Model ----
(***************************************************************************)
(* A model of llm-trader's order-execution core: the Order Executor        *)
(* (executor.py), the Execution Ledger (store.py, the orders table of      *)
(* models.py), the equity curve and kill switch, and the Trading Runner's  *)
(* cycle (runner.py).                                                      *)
(*                                                                         *)
(* Money is an integer number of cents.  Percentages of equity             *)
(* (size_pct_equity, risk_per_position_pct) are in hundredths of a percent *)
(* (0.75 % = 75); stop distances are in basis points of the price          *)
(* (2 % = 200).  An Optional value is a sequence of length at most one:    *)
(* None is << >> and a present value x is << x >>.                         *)
(***************************************************************************)
EXTENDS Integers, Sequences, FiniteSets, TLC

(***************************************************************************)
(* Bounds of the model.                                                    *)
(***************************************************************************)
MaxRuns == 2      \* run ids a direct caller of execute_decision may use
MaxCalls == 2     \* direct invocations of execute_decision explored
MaxCycles == 1    \* runner cycles explored

(***************************************************************************)
(* Program constants (config.py defaults, executor.py literals).           *)
(***************************************************************************)
risk_per_position_pct == 75     \* 0.75 %, in hundredths of a percent
max_positions == 6
drawdown_kill_switch_pct == 6   \* percent
DefaultStopBp == 200            \* stop_distance_pct = 0.02
AtrStopBp == 400                \* stop_distance_pct = 0.04
MaxEquityShare == 10            \* "Max 10% of equity": equity * 0.1 / price

None == << >>
Some(x) == << x >>
IsNone(o) == o = << >>
Get(o) == o[1]

Abs(x) == IF x < 0 THEN -x ELSE x
Min2(a, b) == IF a < b THEN a ELSE b
Max2(a, b) == IF a > b THEN a ELSE b

\* int(n / d) for n >= 0, d > 0: truncation, which is floor on non-negatives.
IntDiv(n, d) == n \div d

\* round(n / d) to the nearest integer, ties to even (Python's round), d > 0.
RoundDiv(n, d) ==
    LET q == n \div d
        r == n % d
    IN  IF 2 * r < d THEN q
        ELSE IF 2 * r > d THEN q + 1
        ELSE IF q % 2 = 0 THEN q ELSE q + 1

Executors == {1, 2}
Symbols == {"AAPL", "MSFT"}
RunIds == 1 .. Max2(MaxRuns, MaxCycles)

(***************************************************************************)
(* Stop-loss and take-profit descriptions.  The texts the model draws from *)
(* and what the executor's regular expressions find in them.               *)
(***************************************************************************)
StopLogics == {"", "2% below entry", "2x ATR(14)", "below support",
               "100% of entry", "0% (none)"}

\* re.search(r'(\d+(?:\.\d+)?)%', text): the percentage, in basis points.
PctMatch(text) ==
    CASE text = "2% below entry" -> Some(200)
      [] text = "100% of entry"  -> Some(10000)
      [] text = "0% (none)"      -> Some(0)
      [] OTHER                   -> None

\* 'atr' in text.lower()
HasAtr(text) == text = "2x ATR(14)"

TakeProfitLogics == {"2.0R target", "trail the trend"}

\* re.search(r'(\d+(?:\.\d+)?)r', text.lower()): the multiple, in tenths.
RatioMatch(text) == IF text = "2.0R target" THEN Some(20) ELSE None

(***************************************************************************)
(* Decision items (models.py DecisionItem / OrderPlan).                    *)
(***************************************************************************)
OrderPlanOf(type, limit, stop, tp, size) ==
    [type |-> type, limit_price |-> limit, stop_logic |-> stop,
     take_profit_logic |-> tp, size_pct_equity |-> size]

Item(symbol, action, order_plan) ==
    [symbol |-> symbol, action |-> action, order_plan |-> order_plan]

\* op_id = f"{run_id}_{symbol}_{action}"
OpId(run_id, item) == << run_id, item.symbol, item.action >>


ProgramActions == {"long", "short"}
OpIds == RunIds \X Symbols \X ProgramActions

(***************************************************************************)
(* Risk & sizing (executor.py).  Pure functions of the decision item, the  *)
(* equity and the price handed to execute_decision.                        *)
(***************************************************************************)

\* The stop distance _calculate_position_size divides by, in basis points:
\* the percentage found in the stop description, else the 2% default.
SizingStopDistance(op) ==
    LET pct_match == IF op.stop_logic # "" THEN PctMatch(op.stop_logic) ELSE None
    IN  IF IsNone(pct_match) THEN DefaultStopBp ELSE Get(pct_match)

\* The stop distance _calculate_stop_price moves the price by, in basis
\* points: the percentage found, else 4% for an ATR stop, else 2%.
StopPriceDistance(stop_logic) ==
    LET pct_match == PctMatch(stop_logic)
    IN  IF ~IsNone(pct_match) THEN Get(pct_match)
        ELSE IF HasAtr(stop_logic) THEN AtrStopBp
        ELSE DefaultStopBp

\* _calculate_position_size: 0 is the sizing failure (also what the except
\* branch returns, reached by the ZeroDivisionError of a zero stop distance).
CalculatePositionSize(decision, current_equity, current_price) ==
    IF IsNone(decision.order_plan) THEN 0
    ELSE
      LET op == Get(decision.order_plan)
          risk_pct == IF op.size_pct_equity <= 0
                         \/ op.size_pct_equity > risk_per_position_pct
                      THEN risk_per_position_pct
                      ELSE op.size_pct_equity
          stop_distance_bp == SizingStopDistance(op)
      IN  IF current_price * stop_distance_bp = 0 THEN 0
          ELSE
            LET quantity == IntDiv(current_equity * risk_pct,
                                   current_price * stop_distance_bp)
                min_quantity == 1
                max_quantity == IntDiv(current_equity,
                                       MaxEquityShare * current_price)
            IN  Max2(min_quantity, Min2(quantity, max_quantity))

\* _calculate_stop_price: None without a stop description, else the price
\* moved by the stop distance and rounded to cents.
CalculateStopPrice(decision, current_price) ==
    IF IsNone(decision.order_plan) \/ Get(decision.order_plan).stop_logic = ""
    THEN None
    ELSE
      LET stop_logic == Get(decision.order_plan).stop_logic
          stop_distance_bp == StopPriceDistance(stop_logic)
      IN  IF decision.action = "long"
          THEN Some(RoundDiv(current_price * (10000 - stop_distance_bp), 10000))
          ELSE Some(RoundDiv(current_price * (10000 + stop_distance_bp), 10000))

\* `not x` of an Optional[float]: None and 0.0 are both false.
Falsy(o) == IsNone(o) \/ Get(o) = 0

\* _calculate_take_profit_price
CalculateTakeProfitPrice(decision, current_price, stop_price) ==
    IF IsNone(decision.order_plan) \/ Falsy(stop_price) THEN None
    ELSE
      LET ratio_match == RatioMatch(Get(decision.order_plan).take_profit_logic)
          risk_reward_tenths == IF IsNone(ratio_match) THEN 15 ELSE Get(ratio_match)
          risk_distance == Abs(current_price - Get(stop_price))
      IN  IF decision.action = "long"
          THEN Some(RoundDiv(10 * current_price + risk_distance * risk_reward_tenths, 10))
          ELSE Some(RoundDiv(10 * current_price - risk_distance * risk_reward_tenths, 10))

\* _calculate_risk_amount
CalculateRiskAmount(entry_price, stop_price, quantity) ==
    IF Falsy(stop_price) THEN 0
    ELSE Abs(entry_price - Get(stop_price)) * quantity

\* _create_execution_plan: None when there is no order plan or sizing fails.
CreateExecutionPlan(decision, current_equity, current_price, op_id) ==
    IF IsNone(decision.order_plan) THEN None
    ELSE
      LET quantity == CalculatePositionSize(decision, current_equity, current_price)
      IN  IF quantity <= 0 THEN None
          ELSE
            LET op == Get(decision.order_plan)
                entry_price == IF op.type = "limit" THEN op.limit_price ELSE None
                stop_price == CalculateStopPrice(decision, current_price)
                take_profit_price ==
                    CalculateTakeProfitPrice(decision, current_price, stop_price)
                estimated_cost ==
                    quantity * (IF Falsy(entry_price) THEN current_price
                                ELSE Get(entry_price))
                risk_amount == CalculateRiskAmount(current_price, stop_price, quantity)
            IN  Some([op_id |-> op_id,
                      symbol |-> decision.symbol,
                      action |-> decision.action,
                      quantity |-> quantity,
                      entry_price |-> entry_price,
                      stop_price |-> stop_price,
                      take_profit_price |-> take_profit_price,
                      order_type |-> op.type,
                      estimated_cost |-> estimated_cost,
                      risk_amount |-> risk_amount])

\* The gates without the two on positions: C19 rests on them.
GateWithoutPositionChecks(p, account, npos, existing) ==
    IF IsNone(account) THEN "no_account"
    ELSE IF p.estimated_cost > Get(account).buying_power THEN "buying_power"
    ELSE IF p.risk_amount * 10000 > Get(account).equity * risk_per_position_pct
         THEN "risk"
    ELSE "ok"

\* The gates without the buying-power one: C6 rests on that gate alone.
GateWithoutBuyingPower(p, account, npos, existing) ==
    IF IsNone(account) THEN "no_account"
    ELSE IF npos >= max_positions THEN "max_positions"
    ELSE IF p.risk_amount * 10000 > Get(account).equity * risk_per_position_pct
         THEN "risk"
    ELSE IF existing THEN "existing_position"
    ELSE "ok"

(***************************************************************************)
(* _validate_execution_plan.  The gates are evaluated in the code's order  *)
(* and the first failing one returns: Gate names it ("ok" when all pass).  *)
(* account is what get_account returned (None when it failed), npos the    *)
(* length of get_positions, existing whether get_position found one.       *)
(***************************************************************************)
Gate(p, account, npos, existing) ==
    IF IsNone(account) THEN "no_account"
    ELSE IF p.estimated_cost > Get(account).buying_power THEN "buying_power"
    ELSE IF npos >= max_positions THEN "max_positions"
    ELSE IF p.risk_amount * 10000 > Get(account).equity * risk_per_position_pct
         THEN "risk"
    ELSE IF existing THEN "existing_position"
    ELSE "ok"

ValidateExecutionPlan(p, account, npos, existing) ==
    Gate(p, account, npos, existing) = "ok"

\* What the validation fetched from the broker before it returned: a gate
\* that fails returns before the later calls are made.
Seen(p, account, npos, existing) ==
    LET g == Gate(p, account, npos, existing)
    IN  [gate |-> g,
         account |-> account,
         npos |-> IF g \in {"no_account", "buying_power"} THEN None ELSE Some(npos),
         existing |-> IF g \in {"ok", "existing_position"} THEN Some(existing) ELSE None]


(***************************************************************************)
(* State.                                                                  *)
(***************************************************************************)
VARIABLES
    orders,     \* the ledger: the rows of the orders table (DBOrder), in insert order
    broker,     \* the orders the broker received from submit_order, in order
    pc,         \* per executor: where its execute_decision call stands
    call,       \* per executor: the arguments of the call in progress
    plan,       \* per executor: the ExecutionPlan of the call, once built
    seen,       \* per executor: what _validate_execution_plan fetched
    result,     \* per executor: the value execute_decision returns
    pending,    \* per executor: keys of pending_operations
    returns,    \* history: per operation id, the values returned so far
    faultOps,   \* history: operation ids hit by a ledger fault or a crash
    raceOps,    \* history: operation ids two calls worked on at the same time
    ncalls,     \* history: direct invocations made
    io          \* history, per executor: what the call in progress has issued

execVars == << orders, broker, pc, call, plan, seen, result, pending,
               returns, faultOps, raceOps, ncalls, io >>

\* A call that has issued no submit_order and no store_execution_result yet.
NoIo == [submits |-> 0, writes |-> 0]

VARIABLES
    market_hours_only,   \* settings.market_hours_only
    rpc,                 \* where the runner's run_once stands
    metrics,             \* TradingRunner.metrics
    consecutive_errors,  \* TradingRunner.consecutive_errors
    cyc,                 \* the locals of the cycle in progress
    retval,              \* what the last run_once returned
    curve,               \* the rows of the equity_curve table, in insert order
    win,                 \* index of the oldest row inside the 30-day window
    decisions            \* run ids whose decision store_trading_decision wrote

VARIABLES
    lpc,                 \* where run_continuous stands ("off": it is not running)
    running,             \* TradingRunner.running
    shutdown_requested,  \* TradingRunner.shutdown_requested
    delay,               \* the argument of the loop's last asyncio.sleep
    streak,              \* history: failed run_once returns in a row
    gw,                  \* the Broker Gateway call in progress
    gwlog,               \* history: the gateway calls that have returned
    cancel_orders_on_shutdown,  \* CANCEL_ORDERS_ON_SHUTDOWN in the environment
    open_orders,         \* the ids of the orders open at the broker
    maint,               \* history: what the last _periodic_maintenance did
    book,                \* the broker's orders, in the order it lists them
    polls                \* history: the update_order_status calls made

loopVars == << lpc, running, shutdown_requested, delay, streak >>
gwVars == << gw, gwlog >>
sdVars == << cancel_orders_on_shutdown, open_orders >>
mtVars == << maint, book, polls >>
outerVars == << loopVars, gwVars, sdVars, mtVars >>

runnerVars == << market_hours_only, rpc, metrics, consecutive_errors, cyc,
                 retval, curve, win, decisions, outerVars >>

vars == << execVars, runnerVars >>

CallOp(e) == OpId(Get(call[e]).run_id, Get(call[e]).decision)

(***************************************************************************)
(* The Execution Ledger (store.py).                                        *)
(***************************************************************************)

\* A ledger look-up that never finds the row: C1 rests on the look-up.
IsOperationExecutedNever(op_id) == FALSE

\* is_operation_executed: a row with this op_id exists.
IsOperationExecuted(op_id) == \E i \in 1 .. Len(orders) : orders[i].op_id = op_id

\* session.query(DBOrder).filter(DBOrder.op_id == op_id).first()
FirstOrder(op_id) ==
    orders[CHOOSE i \in 1 .. Len(orders) :
              /\ orders[i].op_id = op_id
              /\ \A j \in 1 .. i - 1 : orders[j].op_id # op_id]

\* get_execution_result: None without a row, else the row as a result.
\* A read of the record that drops its error message: C17 rests on the
\* fields get_execution_result copies.
GetExecutionResultBare(op_id) ==
    IF ~IsOperationExecuted(op_id) THEN None
    ELSE LET order == FirstOrder(op_id)
         IN  Some([op_id |-> order.op_id,
                   status |-> order.status,
                   order_id |-> order.alpaca_order_id,
                   filled_qty |-> order.filled_qty,
                   filled_price |-> order.filled_price,
                   error_message |-> None])

GetExecutionResult(op_id) ==
    IF ~IsOperationExecuted(op_id) THEN None
    ELSE LET order == FirstOrder(op_id)
         IN  Some([op_id |-> order.op_id,
                   status |-> order.status,
                   order_id |-> order.alpaca_order_id,
                   filled_qty |-> order.filled_qty,
                   filled_price |-> order.filled_price,
                   error_message |-> order.error_message])

\* A row that drops the result's error message: C30 rests on the fields
\* store_execution_result copies.
OrderRowWithoutError(res, p, run_id) ==
    [op_id |-> res.op_id,
     run_id |-> run_id,
     symbol |-> p.symbol,
     action |-> p.action,
     order_type |-> p.order_type,
     quantity |-> p.quantity,
     limit_price |-> p.entry_price,
     stop_price |-> p.stop_price,
     alpaca_order_id |-> res.order_id,
     status |-> res.status,
     filled_qty |-> res.filled_qty,
     filled_price |-> res.filled_price,
     error_message |-> None]

\* The DBOrder row store_execution_result builds.
OrderRow(res, p, run_id) ==
    [op_id |-> res.op_id,
     run_id |-> run_id,
     symbol |-> p.symbol,
     action |-> p.action,
     order_type |-> p.order_type,
     quantity |-> p.quantity,
     limit_price |-> p.entry_price,
     stop_price |-> p.stop_price,
     alpaca_order_id |-> res.order_id,
     status |-> res.status,
     filled_qty |-> res.filled_qty,
     filled_price |-> res.filled_price,
     error_message |-> res.error_message]

\* The insert into a table without the unique constraint on op_id: C2
\* rests on the constraint.
StoreExecutionResultNoUnique(res, p, run_id) ==
    Append(orders, OrderRow(res, p, run_id))

\* store_execution_result: the insert.  op_id is declared unique
\* (models.py), so the flush of a second row for an op_id raises, the session
\* rolls back and the table is unchanged (the method returns False).
StoreExecutionResult(res, p, run_id) ==
    IF IsOperationExecuted(res.op_id) THEN orders
    ELSE Append(orders, OrderRow(res, p, run_id))

ExecutionResult(op_id, status, order_id, error_message) ==
    [op_id |-> op_id, status |-> status, order_id |-> order_id,
     filled_qty |-> 0, filled_price |-> None, error_message |-> error_message]

(***************************************************************************)
(* The Broker Gateway as the executor sees it (alpaca_client.py).          *)
(***************************************************************************)

\* submit_order raises ValueError before reaching the broker, and so returns
\* None, for a limit order without a limit price.
GatewayRefuses(p) == p.order_type = "limit" /\ Falsy(p.entry_price)

\* side = "buy" if plan.action == "long" else "sell"
Side(p) == IF p.action = "long" THEN "buy" ELSE "sell"

BrokerOrder(p) ==
    [op_id |-> p.op_id, symbol |-> p.symbol, side |-> Side(p),
     quantity |-> p.quantity, order_type |-> p.order_type,
     limit_price |-> p.entry_price]

\* Number of broker orders placed for an operation id.
Submitted(op_id) == Cardinality({i \in 1 .. Len(broker) : broker[i].op_id = op_id})


(***************************************************************************)
(* Inputs.                                                                 *)
(***************************************************************************)
Equities == {100000, 12000000}          \* $1,000 and $120,000
Prices == {10000, 20000}                \* $100 and $200
BuyingPowers == {5000, 24000000}        \* $50 and $240,000
PositionCounts == {0, max_positions - 1, max_positions}

Accounts == [equity : Equities, buying_power : BuyingPowers]
AccountsOrNone == {None} \cup {Some(a) : a \in Accounts}

OrderPlans ==
    {OrderPlanOf(t[1], t[2], stop, tp, size) :
        t \in {<< "market", None >>, << "limit", None >>, << "limit", Some(9900) >>},
        stop \in StopLogics, tp \in TakeProfitLogics, size \in {0, 50, 100}}

\* Every trading item the sizing is checked on (an item may lack its order
\* plan: the DecisionItem validator does not run on an omitted field).
SizingItems ==
    {Item("AAPL", a, o) : a \in ProgramActions,
                          o \in {None} \cup {Some(op) : op \in OrderPlans}}

SizingInputs ==
    [decision : SizingItems, current_equity : Equities, current_price : Prices]

\* The items the concurrent executors are invoked with.
ExecItems ==
    {Item("AAPL", "long",
          Some(OrderPlanOf("market", None, "2% below entry", "2.0R target", 50))),
     Item("AAPL", "short", None),
     Item("AAPL", "no-trade", None)}

ExecInputs ==
    [decision : ExecItems, current_equity : {12000000}, current_price : {10000}]

(***************************************************************************)
(* OrderExecutor.execute_decision, step by step.  The steps are the points *)
(* where the call touches the ledger or the broker; what lies between two  *)
(* such points is local and belongs to the step before it.                 *)
(***************************************************************************)

\* Entry: a no-trade item returns None at once; any other item gets its
\* operation id and goes on to the ledger check.
DoCall(e, run_id, decision, current_equity, current_price) ==
    /\ pc[e] = "idle"
    /\ call' = [call EXCEPT ![e] = Some([run_id |-> run_id, decision |-> decision,
                                         current_equity |-> current_equity,
                                         current_price |-> current_price])]
    /\ pc' = [pc EXCEPT ![e] = IF decision.action = "no-trade" THEN "done" ELSE "check"]
    /\ raceOps' = IF /\ decision.action # "no-trade"
                     /\ \E o \in Executors \ {e} :
                           /\ pc[o] # "idle"
                           /\ CallOp(o) = OpId(run_id, decision)
                  THEN raceOps \cup {OpId(run_id, decision)}
                  ELSE raceOps
    /\ io' = [io EXCEPT ![e] = NoIo]
    /\ UNCHANGED << orders, broker, plan, seen, result, pending, returns, faultOps >>

\* After a ledger miss: build the plan; without one the call returns None.
Planned(e) ==
    LET c == Get(call[e])
        p == CreateExecutionPlan(c.decision, c.current_equity, c.current_price,
                                 CallOp(e))
    IN  /\ plan' = [plan EXCEPT ![e] = p]
        /\ pc' = [pc EXCEPT ![e] = IF IsNone(p) THEN "done" ELSE "validate"]
        /\ UNCHANGED << orders, broker, call, seen, result, pending, returns, ncalls, io >>

\* The ledger check: a hit returns the stored result, a miss plans.
CheckLedger(e) ==
    /\ pc[e] = "check"
    /\ IF IsOperationExecuted(CallOp(e))
       THEN /\ result' = [result EXCEPT ![e] = GetExecutionResult(CallOp(e))]
            /\ pc' = [pc EXCEPT ![e] = "done"]
            /\ UNCHANGED << orders, broker, call, plan, seen, pending, returns, ncalls, io >>
       ELSE Planned(e)
    /\ UNCHANGED << faultOps, raceOps >>
    /\ UNCHANGED runnerVars

\* The ledger read fails although a row exists: is_operation_executed logs
\* the error and answers False, so the call goes on as after a miss.
CheckLedgerFault(e) ==
    /\ pc[e] = "check"
    /\ IsOperationExecuted(CallOp(e))
    /\ Planned(e)
    /\ faultOps' = faultOps \cup {CallOp(e)}
    /\ UNCHANGED raceOps
    /\ UNCHANGED runnerVars

\* The check saw the row but the read of the result fails:
\* get_execution_result logs the error and the call returns None.
GetResultFault(e) ==
    /\ pc[e] = "check"
    /\ IsOperationExecuted(CallOp(e))
    /\ pc' = [pc EXCEPT ![e] = "done"]
    /\ faultOps' = faultOps \cup {CallOp(e)}
    /\ UNCHANGED << orders, broker, call, plan, seen, result, pending, returns,
                    raceOps, ncalls, io >>
    /\ UNCHANGED runnerVars

\* A validation that records a refusal in the ledger: C18 rests on the
\* refusal leaving no row.
ValidateRecordingRefusal(e) ==
    /\ pc[e] = "validate"
    /\ \E account \in AccountsOrNone, npos \in PositionCounts, existing \in BOOLEAN :
          LET p == Get(plan[e])
              ok == ValidateExecutionPlan(p, account, npos, existing)
          IN  /\ seen' = [seen EXCEPT ![e] = Some(Seen(p, account, npos, existing))]
              /\ pc' = [pc EXCEPT ![e] = IF ok THEN "submit" ELSE "done"]
              /\ pending' = [pending EXCEPT ![e] = IF ok THEN @ \cup {p.op_id} ELSE @]
              /\ orders' = IF ok THEN orders
                           ELSE StoreExecutionResult(
                                    ExecutionResult(p.op_id, "rejected", None,
                                                    Some("validation failed")),
                                    p, Get(call[e]).run_id)
    /\ UNCHANGED << broker, call, plan, result, returns, faultOps, raceOps, ncalls, io >>
    /\ UNCHANGED runnerVars

\* _validate_execution_plan against what the broker reports now; a plan
\* that passes is entered in pending_operations.
Validate(e) ==
    /\ pc[e] = "validate"
    /\ \E account \in AccountsOrNone, npos \in PositionCounts, existing \in BOOLEAN :
          LET p == Get(plan[e])
              ok == ValidateExecutionPlan(p, account, npos, existing)
          IN  /\ seen' = [seen EXCEPT ![e] = Some(Seen(p, account, npos, existing))]
              /\ pc' = [pc EXCEPT ![e] = IF ok THEN "submit" ELSE "done"]
              /\ pending' = [pending EXCEPT ![e] = IF ok THEN @ \cup {p.op_id} ELSE @]
    /\ UNCHANGED << orders, broker, call, plan, result, returns, faultOps, raceOps,
                    ncalls, io >>
    /\ UNCHANGED runnerVars

\* An _execute_plan that follows the entry order with a stop order (the
\* OCO emulation the source leaves as a TODO): C29 rests on the single
\* submit_order.
SubmitWithStop(e) ==
    /\ pc[e] = "submit"
    /\ LET p == Get(plan[e])
       IN  /\ broker' = Append(Append(broker, BrokerOrder(p)),
                               [BrokerOrder(p) EXCEPT !.order_type = "stop"])
           /\ result' = [result EXCEPT ![e] =
                 Some(ExecutionResult(p.op_id, "submitted",
                                      Some(Len(broker) + 1), None))]
    /\ io' = [io EXCEPT ![e].submits = @ + 2]
    /\ pc' = [pc EXCEPT ![e] = "store"]
    /\ UNCHANGED << orders, call, plan, seen, pending, returns, faultOps, raceOps,
                    ncalls >>
    /\ UNCHANGED runnerVars

\* _execute_plan: one submit_order; an order id means SUBMITTED, None means
\* REJECTED.  The broker's order id is new each time.
Submit(e) ==
    /\ pc[e] = "submit"
    /\ LET p == Get(plan[e])
       IN  \/ /\ ~GatewayRefuses(p)
              /\ broker' = Append(broker, BrokerOrder(p))
              /\ result' = [result EXCEPT ![e] =
                    Some(ExecutionResult(p.op_id, "submitted",
                                         Some(Len(broker) + 1), None))]
           \/ /\ UNCHANGED broker
              /\ result' = [result EXCEPT ![e] =
                    Some(ExecutionResult(p.op_id, "rejected", None,
                                         Some("Order submission failed")))]
    /\ io' = [io EXCEPT ![e].submits = @ + 1]
    /\ pc' = [pc EXCEPT ![e] = "store"]
    /\ UNCHANGED << orders, call, plan, seen, pending, returns, faultOps, raceOps,
                    ncalls >>
    /\ UNCHANGED runnerVars

\* A call that stores its result and leaves its key in pending_operations:
\* C40 rests on the pop that follows the write.
StoreKeepingPending(e) ==
    /\ pc[e] = "store"
    /\ orders' = StoreExecutionResult(Get(result[e]), Get(plan[e]),
                                      Get(call[e]).run_id)
    /\ pc' = [pc EXCEPT ![e] = "done"]
    /\ io' = [io EXCEPT ![e].writes = @ + 1]
    /\ UNCHANGED << broker, call, plan, seen, result, pending, returns, faultOps,
                    raceOps, ncalls >>
    /\ UNCHANGED runnerVars

\* _store_execution_result, then pending_operations.pop(op_id).
Store(e) ==
    /\ pc[e] = "store"
    /\ orders' = StoreExecutionResult(Get(result[e]), Get(plan[e]),
                                      Get(call[e]).run_id)
    /\ pending' = [pending EXCEPT ![e] = @ \ {CallOp(e)}]
    /\ pc' = [pc EXCEPT ![e] = "done"]
    /\ io' = [io EXCEPT ![e].writes = @ + 1]
    /\ UNCHANGED << broker, call, plan, seen, result, returns, faultOps, raceOps,
                    ncalls >>
    /\ UNCHANGED runnerVars

\* The ledger write fails for a reason other than the unique constraint:
\* store_execution_result returns False, _store_execution_result ignores it.
StoreFault(e) ==
    /\ pc[e] = "store"
    /\ ~IsOperationExecuted(CallOp(e))
    /\ pending' = [pending EXCEPT ![e] = @ \ {CallOp(e)}]
    /\ pc' = [pc EXCEPT ![e] = "done"]
    /\ faultOps' = faultOps \cup {CallOp(e)}
    /\ io' = [io EXCEPT ![e].writes = @ + 1]
    /\ UNCHANGED << orders, broker, call, plan, seen, result, returns, raceOps,
                    ncalls >>
    /\ UNCHANGED runnerVars

\* The process dies after _execute_plan returned and before the result is
\* stored: everything the executor held in memory is gone.
Crash(e) ==
    /\ pc[e] = "store"
    /\ faultOps' = faultOps \cup {CallOp(e)}
    /\ pc' = [pc EXCEPT ![e] = "idle"]
    /\ call' = [call EXCEPT ![e] = None]
    /\ plan' = [plan EXCEPT ![e] = None]
    /\ seen' = [seen EXCEPT ![e] = None]
    /\ result' = [result EXCEPT ![e] = None]
    /\ pending' = [pending EXCEPT ![e] = {}]
    /\ io' = [io EXCEPT ![e] = NoIo]
    /\ UNCHANGED << orders, broker, returns, raceOps, ncalls >>
    /\ UNCHANGED runnerVars

\* execute_decision returns result[e] to its caller.
DoReturn(e) ==
    /\ pc[e] = "done"
    /\ returns' = IF Get(call[e]).decision.action = "no-trade" THEN returns
                  ELSE [returns EXCEPT ![CallOp(e)] = Append(@, result[e])]
    /\ pc' = [pc EXCEPT ![e] = "idle"]
    /\ call' = [call EXCEPT ![e] = None]
    /\ plan' = [plan EXCEPT ![e] = None]
    /\ seen' = [seen EXCEPT ![e] = None]
    /\ result' = [result EXCEPT ![e] = None]
    /\ io' = [io EXCEPT ![e] = NoIo]
    /\ UNCHANGED << orders, broker, pending, faultOps, raceOps >>

(***************************************************************************)
(* The equity curve and the kill switch (store.py, runner.py).             *)
(***************************************************************************)
SeqMax(q) == CHOOSE x \in {q[i] : i \in 1 .. Len(q)} :
                \A i \in 1 .. Len(q) : x >= q[i]

\* update_equity_curve: the row it inserts.  latest_peak is the highest
\* peak_equity of the table, or total_equity when there is none (or it is 0).
EquityPoint(total_equity) ==
    LET peaks == [i \in 1 .. Len(curve) |-> curve[i].peak_equity]
        latest_peak == IF Len(curve) = 0 \/ SeqMax(peaks) = 0 THEN total_equity
                       ELSE SeqMax(peaks)
    IN  [total_equity |-> total_equity,
         peak_equity |-> Max2(latest_peak, total_equity)]

\* get_equity_curve(days=30): the total_equity of the rows inside the window,
\* oldest first.
GetEquityCurve ==
    [i \in 1 .. (Len(curve) + 1 - win) |-> curve[win + i - 1].total_equity]

\* The kill switch tripping at the threshold itself: C9 says strictly above.
CheckKillSwitchAtThreshold(equity_data, current_equity) ==
    IF Len(equity_data) = 0 THEN FALSE
    ELSE LET peak_equity == SeqMax(equity_data)
         IN  IF peak_equity > 0
             THEN (peak_equity - current_equity) * 100
                     >= drawdown_kill_switch_pct * peak_equity
             ELSE FALSE

\* _check_kill_switch on the rows get_equity_curve returned.
CheckKillSwitch(equity_data, current_equity) ==
    IF Len(equity_data) = 0 THEN FALSE
    ELSE LET peak_equity == SeqMax(equity_data)
         IN  IF peak_equity > 0
             THEN (peak_equity - current_equity) * 100
                     > drawdown_kill_switch_pct * peak_equity
             ELSE FALSE

(***************************************************************************)
(* The supervisory loop's and the Broker Gateway's settings and their      *)
(* state before anything has run (runner.py, alpaca_client.py).            *)
(***************************************************************************)
max_consecutive_errors == 5
base_backoff_seconds == 30
BackoffExponentCap == 5
loop_interval_seconds == 300
max_retries == 3
retry_delay == 1

RECURSIVE Pow2(_)
Pow2(n) == IF n = 0 THEN 1 ELSE 2 * Pow2(n - 1)

NoGwCall == [name |-> "", attempts |-> 0, waits |-> << >>]

\* The fields class Settings declares, as far as the runner reads them.
\* The class ignores what the environment sets beyond its fields
\* (extra="ignore"), so hasattr(settings, name) holds for these names only.
SettingsFields ==
    {"risk_per_position_pct", "max_positions", "drawdown_kill_switch_pct",
     "loop_interval_seconds", "market_hours_only"}
HasSetting(name) == name \in SettingsFields

\* A broker without open orders and an environment without the variable.
InitBroker ==
    /\ cancel_orders_on_shutdown = FALSE
    /\ open_orders = {}
    /\ book = << >>

\* No maintenance has run yet.
NoMaint == [ran |-> FALSE, due |-> {}, polled |-> {}, purged |-> FALSE,
            raised |-> FALSE]

InitOuter ==
    /\ lpc = "off"
    /\ running = FALSE
    /\ shutdown_requested = FALSE
    /\ delay = None
    /\ streak = 0
    /\ gw = NoGwCall
    /\ gwlog = << >>
    /\ maint = NoMaint
    /\ polls = << >>

(***************************************************************************)
(* The runner's inputs and initial state (runner.py).                      *)
(***************************************************************************)
MaxItems == 2     \* items in one decision (SpecItems)

\* $0, $110,000, $112,800, $115,000 and $120,000
RunnerEquities == {0, 11000000, 11280000, 11500000, 12000000}
RunnerAccountsOrNone ==
    {None} \cup {Some([equity |-> q, buying_power |-> 24000000]) : q \in RunnerEquities}

RunnerItems ==
    {Item("AAPL", "long",
          Some(OrderPlanOf("market", None, "2% below entry", "2.0R target", 50))),
     Item("AAPL", "no-trade", None)}

\* The decisions of SpecRunner have one item each.
Decisions == {<< it >> : it \in RunnerItems}

\* The quote of tools.market_data.get_quote: None when unavailable.
Quotes == {None, Some(10000)}

NoCycle ==
    [run_id |-> 0, account |-> None, kill |-> None, decision |-> None, idx |-> 0,
     llm_calls |-> 0, exec_calls |-> 0, broker_before |-> 0,
     store_calls |-> 0, raised |-> FALSE, errors_before |-> 0,
     failed_before |-> 0, market_open |-> None, steps |-> << >>,
     skipped |-> {}, invoked |-> << >>, faults |-> {}]

InitRunner ==
    /\ InitOuter
    /\ rpc = "idle"
    /\ metrics = [total_runs |-> 0, successful_runs |-> 0, failed_runs |-> 0,
                  decisions_generated |-> 0, orders_submitted |-> 0]
    /\ consecutive_errors = 0
    /\ cyc = NoCycle
    /\ retval = None
    /\ win = 1
    /\ decisions = << >>

(***************************************************************************)
(* Spec: two executors that share one ledger and one broker, each invoked  *)
(* directly, with ledger faults and crashes.                               *)
(***************************************************************************)
Call(e) ==
    /\ ncalls < MaxCalls
    /\ \E run_id \in 1 .. MaxRuns, in \in ExecInputs :
          DoCall(e, run_id, in.decision, in.current_equity, in.current_price)
    /\ ncalls' = ncalls + 1
    /\ UNCHANGED runnerVars

Return(e) == DoReturn(e) /\ UNCHANGED << ncalls, runnerVars >>

InitExec ==
    /\ orders = << >>
    /\ broker = << >>
    /\ pc = [e \in Executors |-> "idle"]
    /\ call = [e \in Executors |-> None]
    /\ plan = [e \in Executors |-> None]
    /\ seen = [e \in Executors |-> None]
    /\ result = [e \in Executors |-> None]
    /\ pending = [e \in Executors |-> {}]
    /\ returns = [o \in OpIds |-> << >>]
    /\ faultOps = {}
    /\ raceOps = {}
    /\ ncalls = 0
    /\ io = [e \in Executors |-> NoIo]

\* settings.market_hours_only is True unless the environment sets it.
Init ==
    /\ InitExec
    /\ InitRunner
    /\ InitBroker
    /\ market_hours_only = TRUE
    /\ curve = << >>

Next ==
    \E e \in Executors :
        \/ Call(e)
        \/ CheckLedger(e)
        \/ CheckLedgerFault(e)
        \/ GetResultFault(e)
        \/ Validate(e)
        \/ Submit(e)
        \/ Store(e)
        \/ StoreFault(e)
        \/ Crash(e)
        \/ Return(e)

Spec == Init /\ [][Next]_vars

(***************************************************************************)
(* SpecSizing: one execute_decision call on an empty ledger, for every     *)
(* input of SizingInputs.                                                  *)
(***************************************************************************)
InitSizing ==
    /\ \E in \in SizingInputs :
          call = [e \in Executors |->
                    IF e = 1 THEN Some([run_id |-> 1, decision |-> in.decision,
                                        current_equity |-> in.current_equity,
                                        current_price |-> in.current_price])
                    ELSE None]
    /\ pc = [e \in Executors |-> IF e = 1 THEN "check" ELSE "idle"]
    /\ orders = << >>
    /\ broker = << >>
    /\ plan = [e \in Executors |-> None]
    /\ seen = [e \in Executors |-> None]
    /\ result = [e \in Executors |-> None]
    /\ pending = [e \in Executors |-> {}]
    /\ returns = [o \in OpIds |-> << >>]
    /\ faultOps = {}
    /\ raceOps = {}
    /\ ncalls = 1
    /\ io = [e \in Executors |-> NoIo]
    /\ InitRunner
    /\ InitBroker
    /\ market_hours_only = TRUE
    /\ curve = << >>

NextSizing ==
    \/ CheckLedger(1)
    \/ Validate(1)
    \/ Submit(1)
    \/ Store(1)
    \/ Return(1)

SpecSizing == InitSizing /\ [][NextSizing]_vars


(***************************************************************************)
(* TradingRunner.run_once, step by step (runner.py).                       *)
(***************************************************************************)

\* The except branch without the count: C15 rests on the increment.
CycleExceptionUncounted ==
    /\ metrics' = [metrics EXCEPT !.total_runs = IF rpc = "idle" THEN @ + 1 ELSE @,
                                  !.failed_runs = @ + 1]
    /\ UNCHANGED consecutive_errors
    /\ retval' = Some(FALSE)
    /\ rpc' = "ret"

\* The except branch of run_once.
CycleException ==
    /\ metrics' = [metrics EXCEPT !.total_runs = IF rpc = "idle" THEN @ + 1 ELSE @,
                                  !.failed_runs = @ + 1]
    /\ consecutive_errors' = consecutive_errors + 1
    /\ retval' = Some(FALSE)
    /\ rpc' = "ret"

\* run_id = create_run_id(); total_runs += 1; the market-hours check.
\* AlpacaClient.is_market_open is a plain method returning a bool, so the
\* await of its result raises TypeError whenever market_hours_only is set,
\* whatever the broker's clock said.
RunOnceEntry(limit) ==
    /\ rpc = "idle"
    /\ metrics.total_runs < limit
    /\ \E is_open \in IF market_hours_only THEN {Some(TRUE), Some(FALSE)} ELSE {None} :
          cyc' = [NoCycle EXCEPT !.run_id = metrics.total_runs + 1,
                                 !.broker_before = Len(broker),
                                 !.errors_before = consecutive_errors,
                                 !.failed_before = metrics.failed_runs,
                                 !.market_open = is_open,
                                 !.raised = market_hours_only]
    /\ IF market_hours_only
       THEN CycleException
       ELSE /\ metrics' = [metrics EXCEPT !.total_runs = @ + 1]
            /\ rpc' = "account"
            /\ UNCHANGED << consecutive_errors, retval >>
    /\ UNCHANGED << market_hours_only, curve, win, decisions, execVars >>

\* run_once called on its own (run_once_cli).
BeginCycle == RunOnceEntry(MaxCycles) /\ UNCHANGED outerVars

\* get_account and get_positions: no account is a failed cycle.
FetchAccountFrom(accounts) ==
    /\ rpc = "account"
    /\ \E account \in accounts :
          /\ cyc' = [cyc EXCEPT !.account = account, !.steps = Append(@, "account")]
          /\ IF IsNone(account)
             THEN /\ retval' = Some(FALSE)
                  /\ rpc' = "ret"
             ELSE /\ rpc' = "equity"
                  /\ UNCHANGED retval
    /\ UNCHANGED << outerVars, market_hours_only, metrics, consecutive_errors, curve, win,
                    decisions, execVars >>

FetchAccount == FetchAccountFrom(RunnerAccountsOrNone)

\* A cycle that goes from the equity update straight to the decision: C23
\* rests on the kill switch being evaluated in between.
UpdateEquityCurveThenDecide ==
    /\ rpc = "equity"
    /\ curve' = Append(curve, EquityPoint(Get(cyc.account).equity))
    /\ cyc' = [cyc EXCEPT !.steps = Append(@, "equity")]
    /\ rpc' = "decide"
    /\ UNCHANGED << outerVars, market_hours_only, metrics, consecutive_errors, retval, win,
                    decisions, execVars >>

\* _update_equity_curve: one row appended.
UpdateEquityCurve ==
    /\ rpc = "equity"
    /\ curve' = Append(curve, EquityPoint(Get(cyc.account).equity))
    /\ cyc' = [cyc EXCEPT !.steps = Append(@, "equity")]
    /\ rpc' = "kill"
    /\ UNCHANGED << outerVars, market_hours_only, metrics, consecutive_errors, retval, win,
                    decisions, execVars >>

\* The insert fails: update_equity_curve returns False and the cycle goes on.
UpdateEquityCurveFault ==
    /\ rpc = "equity"
    /\ cyc' = [cyc EXCEPT !.steps = Append(@, "equity"),
                          !.faults = @ \cup {"equity_append"}]
    /\ rpc' = "kill"
    /\ UNCHANGED << outerVars, market_hours_only, metrics, consecutive_errors, retval,
                    curve, win, decisions, execVars >>

\* A cycle that goes on to the decision whatever the kill switch says: C10
\* rests on the early return.
KillSwitchIgnored ==
    /\ rpc = "kill"
    /\ cyc' = [cyc EXCEPT !.kill =
                  Some(CheckKillSwitch(GetEquityCurve, Get(cyc.account).equity)),
                          !.steps = Append(@, "kill")]
    /\ rpc' = "decide"
    /\ UNCHANGED << outerVars, market_hours_only, metrics, consecutive_errors, retval, curve,
                    win, decisions, execVars >>

\* _check_kill_switch(account.equity): active ends the cycle with True.
KillSwitchStep ==
    /\ rpc = "kill"
    /\ LET active == CheckKillSwitch(GetEquityCurve, Get(cyc.account).equity)
       IN  /\ cyc' = [cyc EXCEPT !.kill = Some(active), !.steps = Append(@, "kill")]
           /\ IF active
              THEN /\ retval' = Some(TRUE)
                   /\ rpc' = "ret"
              ELSE /\ rpc' = "decide"
                   /\ UNCHANGED retval
    /\ UNCHANGED << outerVars, market_hours_only, metrics, consecutive_errors, curve, win,
                    decisions, execVars >>

\* A failed read of the equity table that fails the cycle: C38 rests on the
\* read's own except branch.
KillSwitchReadRaises ==
    /\ rpc = "kill"
    /\ cyc' = [cyc EXCEPT !.raised = TRUE, !.steps = Append(@, "kill"),
                          !.faults = @ \cup {"equity_read"}]
    /\ CycleException
    /\ UNCHANGED << outerVars, market_hours_only, curve, win, decisions, execVars >>

\* The read of the equity table fails: get_equity_curve logs the error and
\* returns [], which _check_kill_switch takes for an empty history.
KillSwitchReadFault ==
    /\ rpc = "kill"
    /\ cyc' = [cyc EXCEPT !.kill =
                  Some(CheckKillSwitch(<< >>, Get(cyc.account).equity)),
                          !.steps = Append(@, "kill"),
                          !.faults = @ \cup {"equity_read"}]
    /\ rpc' = "decide"
    /\ UNCHANGED << outerVars, market_hours_only, metrics, consecutive_errors, retval, curve,
                    win, decisions, execVars >>

\* A cycle that keeps the decision to itself: C24 rests on the call of
\* store_trading_decision.
DecideFromUnstored(ds) ==
    /\ rpc = "decide"
    /\ \E d \in ds :
          cyc' = [cyc EXCEPT !.llm_calls = @ + 1, !.decision = Some(d), !.idx = 1,
                             !.steps = Append(@, "decide")]
    /\ metrics' = [metrics EXCEPT !.decisions_generated = @ + 1]
    /\ rpc' = "items"
    /\ UNCHANGED << outerVars, market_hours_only, consecutive_errors, retval, curve, win,
                    decisions, execVars >>

\* generate_decision returned a decision: it is stored and counted.
DecideFrom(ds) ==
    /\ rpc = "decide"
    /\ \E d \in ds :
          cyc' = [cyc EXCEPT !.llm_calls = @ + 1, !.decision = Some(d), !.idx = 1,
                             !.store_calls = @ + 1, !.steps = Append(@, "decide")]
    /\ decisions' = Append(decisions, cyc.run_id)
    /\ metrics' = [metrics EXCEPT !.decisions_generated = @ + 1]
    /\ rpc' = "items"
    /\ UNCHANGED << outerVars, market_hours_only, consecutive_errors, retval, curve, win,
                    execVars >>

Decide == DecideFrom(Decisions)

\* generate_decision returned a decision and store_trading_decision failed:
\* it returns False, which run_once does not look at, and the decision is
\* counted all the same.
DecideStoreFault ==
    /\ rpc = "decide"
    /\ \E d \in Decisions :
          cyc' = [cyc EXCEPT !.llm_calls = @ + 1, !.decision = Some(d), !.idx = 1,
                             !.store_calls = @ + 1, !.steps = Append(@, "decide")]
    /\ metrics' = [metrics EXCEPT !.decisions_generated = @ + 1]
    /\ rpc' = "items"
    /\ UNCHANGED << outerVars, market_hours_only, consecutive_errors, retval, curve, win,
                    decisions, execVars >>

\* generate_decision returned None: the cycle returns False.
DecideNone ==
    /\ rpc = "decide"
    /\ cyc' = [cyc EXCEPT !.llm_calls = @ + 1, !.steps = Append(@, "decide")]
    /\ retval' = Some(FALSE)
    /\ rpc' = "ret"
    /\ UNCHANGED << outerVars, market_hours_only, metrics, consecutive_errors, curve, win,
                    decisions, execVars >>

\* The agent raises (its construction or its close): the except branch.
DecideRaises ==
    /\ rpc = "decide"
    /\ cyc' = [cyc EXCEPT !.llm_calls = @ + 1, !.raised = TRUE,
                          !.steps = Append(@, "decide")]
    /\ CycleException
    /\ UNCHANGED << outerVars, market_hours_only, curve, win, decisions, execVars >>

CurrentItem == Get(cyc.decision)[cyc.idx]
MoreItems == rpc = "items" /\ cyc.idx <= Len(Get(cyc.decision))

\* A no-trade item is passed over.
SkipNoTrade ==
    /\ MoreItems
    /\ CurrentItem.action = "no-trade"
    /\ cyc' = [cyc EXCEPT !.idx = @ + 1]
    /\ UNCHANGED << outerVars, market_hours_only, rpc, metrics, consecutive_errors, retval,
                    curve, win, decisions, execVars >>

\* A missing quote that ends the cycle as a failure: C26 rests on the
\* continue.
NoQuoteEndsCycle ==
    /\ MoreItems
    /\ CurrentItem.action # "no-trade"
    /\ cyc' = [cyc EXCEPT !.skipped = @ \cup {cyc.idx}]
    /\ retval' = Some(FALSE)
    /\ rpc' = "ret"
    /\ UNCHANGED << outerVars, market_hours_only, metrics, consecutive_errors, curve, win,
                    decisions, execVars >>

\* No quote for the symbol: the item is skipped.
NoQuote ==
    /\ MoreItems
    /\ CurrentItem.action # "no-trade"
    /\ cyc' = [cyc EXCEPT !.idx = @ + 1, !.skipped = @ \cup {cyc.idx}]
    /\ UNCHANGED << outerVars, market_hours_only, rpc, metrics, consecutive_errors, retval,
                    curve, win, decisions, execVars >>

\* An executor call that is started and not awaited: C25 rests on the await.
InvokeWithoutAwait ==
    /\ MoreItems
    /\ CurrentItem.action # "no-trade"
    /\ \E quote \in Quotes \ {None} :
          DoCall(1, cyc.run_id, CurrentItem, Get(cyc.account).equity, Get(quote))
    /\ cyc' = [cyc EXCEPT !.exec_calls = @ + 1, !.invoked = Append(@, cyc.idx),
                          !.steps = Append(@, "exec"), !.idx = @ + 1]
    /\ UNCHANGED << outerVars, market_hours_only, rpc, metrics, consecutive_errors, retval,
                    curve, win, decisions, ncalls >>

\* An executor call that gets a run id of its own: C37 rests on the cycle's
\* one run id reaching every call.
InvokeFreshRunId ==
    /\ MoreItems
    /\ CurrentItem.action # "no-trade"
    /\ \E quote \in Quotes \ {None} :
          DoCall(1, cyc.run_id + cyc.exec_calls, CurrentItem, Get(cyc.account).equity,
                 Get(quote))
    /\ cyc' = [cyc EXCEPT !.exec_calls = @ + 1, !.invoked = Append(@, cyc.idx),
                          !.steps = Append(@, "exec")]
    /\ rpc' = "exec"
    /\ UNCHANGED << outerVars, market_hours_only, metrics, consecutive_errors, retval, curve,
                    win, decisions, ncalls >>

\* executor.execute_decision(dec, account.equity, quote.price, run_id)
Invoke ==
    /\ MoreItems
    /\ CurrentItem.action # "no-trade"
    /\ \E quote \in Quotes \ {None} :
          DoCall(1, cyc.run_id, CurrentItem, Get(cyc.account).equity, Get(quote))
    /\ cyc' = [cyc EXCEPT !.exec_calls = @ + 1, !.invoked = Append(@, cyc.idx),
                          !.steps = Append(@, "exec")]
    /\ rpc' = "exec"
    /\ UNCHANGED << outerVars, market_hours_only, metrics, consecutive_errors, retval, curve,
                    win, decisions, ncalls >>

\* execute_decision has returned: a result with an order id is counted.
Collect ==
    /\ rpc = "exec"
    /\ DoReturn(1)
    /\ metrics' = [metrics EXCEPT !.orders_submitted =
                      IF ~IsNone(result[1]) /\ ~IsNone(Get(result[1]).order_id)
                      THEN @ + 1 ELSE @]
    /\ cyc' = [cyc EXCEPT !.idx = @ + 1]
    /\ rpc' = "items"
    /\ UNCHANGED << outerVars, market_hours_only, consecutive_errors, retval, curve, win,
                    decisions, ncalls >>

\* All items done: the cycle succeeded.
FinishCycle ==
    /\ rpc = "items"
    /\ cyc.idx > Len(Get(cyc.decision))
    /\ metrics' = [metrics EXCEPT !.successful_runs = @ + 1]
    /\ consecutive_errors' = 0
    /\ retval' = Some(TRUE)
    /\ rpc' = "ret"
    /\ UNCHANGED << outerVars, market_hours_only, cyc, curve, win, decisions, execVars >>

\* run_once has returned to its caller.
EndCycle ==
    /\ rpc = "ret"
    /\ rpc' = "idle"
    /\ cyc' = NoCycle
    /\ UNCHANGED << outerVars, market_hours_only, metrics, consecutive_errors, retval, curve,
                    win, decisions, execVars >>

\* Between cycles time passes and the oldest row leaves the 30-day window.
AgeOut ==
    /\ rpc = "idle"
    /\ win <= Len(curve)
    /\ win' = win + 1
    /\ UNCHANGED << outerVars, market_hours_only, rpc, metrics, consecutive_errors, cyc, retval,
                    curve, decisions, execVars >>

(***************************************************************************)
(* SpecRunner: one runner and its executor.                                *)
(***************************************************************************)
NextRunner ==
    \/ BeginCycle
    \/ FetchAccount
    \/ UpdateEquityCurve
    \/ UpdateEquityCurveFault
    \/ KillSwitchStep
    \/ Decide
    \/ DecideStoreFault
    \/ DecideNone
    \/ DecideRaises
    \/ SkipNoTrade
    \/ NoQuote
    \/ Invoke
    \/ CheckLedger(1)
    \/ Validate(1)
    \/ Submit(1)
    \/ Store(1)
    \/ Collect
    \/ FinishCycle
    \/ EndCycle
    \/ AgeOut

\* The equity table outlives the process: a runner starts on the rows that
\* earlier sessions left in the database, here none or one of $120,000.
PriorCurves ==
    {<< >>, << [total_equity |-> 12000000, peak_equity |-> 12000000] >>}

InitCycles ==
    /\ InitExec
    /\ InitRunner
    /\ InitBroker
    /\ market_hours_only \in BOOLEAN
    /\ curve \in PriorCurves

SpecRunner == InitCycles /\ [][NextRunner]_vars

\* SpecKill: the same runner with an equity table whose read may fail.
NextKill ==
    \/ NextRunner
    \/ KillSwitchReadFault

SpecKill == InitCycles /\ [][NextKill]_vars

(***************************************************************************)
(* SpecItems: one cycle of run_once on decisions of several items.         *)
(***************************************************************************)
SeqItems ==
    {Item(sym, "long",
          Some(OrderPlanOf("market", None, "2% below entry", "2.0R target", 50))) :
        sym \in Symbols}
    \cup {Item("AAPL", "no-trade", None)}

SeqDecisions == UNION {[1 .. n -> SeqItems] : n \in 1 .. MaxItems}

\* $120,000
SeqAccounts == {Some([equity |-> 12000000, buying_power |-> 24000000])}

ItemsBegin == metrics.total_runs = 0 /\ RunOnceEntry(MaxCycles) /\ UNCHANGED outerVars
ItemsFetchAccount == FetchAccountFrom(SeqAccounts)
ItemsDecide == DecideFrom(SeqDecisions)

NextItems ==
    \/ ItemsBegin
    \/ ItemsFetchAccount
    \/ UpdateEquityCurve
    \/ KillSwitchStep
    \/ ItemsDecide
    \/ SkipNoTrade
    \/ NoQuote
    \/ Invoke
    \/ CheckLedger(1)
    \/ Validate(1)
    \/ Submit(1)
    \/ Store(1)
    \/ Collect
    \/ FinishCycle
    \/ EndCycle

InitItems ==
    /\ InitExec
    /\ InitRunner
    /\ InitBroker
    /\ market_hours_only = FALSE
    /\ curve = << >>

SpecItems == InitItems /\ [][NextItems]_vars

(***************************************************************************)
(* TradingRunner.run_continuous (runner.py): SpecLoop.  The cycles of the  *)
(* loop are run_once's steps above, on no-trade decisions.                 *)
(***************************************************************************)
MaxLoopCycles == 6    \* cycles the loop may start

\* $110,000 and $120,000
LoopAccountsOrNone ==
    {None} \cup {Some([equity |-> q, buying_power |-> 24000000]) :
                    q \in {11000000, 12000000}}
LoopDecisions == {<< Item("AAPL", "no-trade", None) >>}

\* setup_signal_handlers(); self.running = True
LoopStart ==
    /\ lpc = "off"
    /\ rpc = "idle"
    /\ lpc' = "top"
    /\ running' = TRUE
    /\ UNCHANGED << shutdown_requested, delay, streak, gwVars, sdVars, mtVars >>
    /\ UNCHANGED << market_hours_only, rpc, metrics, consecutive_errors, cyc, retval,
                    curve, win, decisions, execVars >>

\* The signal handler or stop() sets the flag, at any moment.
RequestStop ==
    /\ lpc \notin {"off", "stopped"}
    /\ ~shutdown_requested
    /\ shutdown_requested' = TRUE
    /\ UNCHANGED << lpc, running, delay, streak, gwVars, sdVars, mtVars >>
    /\ UNCHANGED << market_hours_only, rpc, metrics, consecutive_errors, cyc, retval,
                    curve, win, decisions, execVars >>

\* The while condition and the break on too many consecutive errors.
LoopExits ==
    \/ ~(running /\ ~shutdown_requested)
    \/ consecutive_errors >= max_consecutive_errors

\* success = await self.run_once(focus_tickers): the call.
LoopRunOnce ==
    /\ lpc = "top"
    /\ ~LoopExits
    /\ RunOnceEntry(MaxLoopCycles)
    /\ lpc' = "cycle"
    /\ UNCHANGED << running, shutdown_requested, delay, streak, gwVars, sdVars, mtVars >>

LoopFetchAccount == lpc = "cycle" /\ FetchAccountFrom(LoopAccountsOrNone)
LoopDecide == lpc = "cycle" /\ DecideFrom(LoopDecisions)

\* run_once has returned: the back-off sleep after a failure, the fixed
\* interval after a success.
LoopSleep ==
    /\ lpc = "cycle"
    /\ rpc = "idle"
    /\ LET success == Get(retval)
       IN  /\ delay' = Some(IF ~success
                            THEN base_backoff_seconds
                                   * Pow2(Min2(consecutive_errors, BackoffExponentCap))
                            ELSE loop_interval_seconds)
           /\ streak' = IF success THEN 0 ELSE streak + 1
    /\ lpc' = "maintenance"
    /\ UNCHANGED << running, shutdown_requested, gwVars, sdVars, mtVars >>
    /\ UNCHANGED << market_hours_only, rpc, metrics, consecutive_errors, cyc, retval,
                    curve, win, decisions, execVars >>

\* get_recent_orders(limit=10): the newest rows of the ledger, as dicts of
\* op_id, symbol, action, quantity, order_type, status, filled_qty,
\* filled_price, submitted_at and filled_at.
RecentLimit == 10
GetRecentOrders == {i \in 1 .. Len(orders) : i > Len(orders) - RecentLimit}

\* The recent orders _periodic_maintenance wants to poll.
DueOrders ==
    {orders[i].op_id : i \in {j \in GetRecentOrders :
                                  orders[j].status \in {"submitted", "pending"}}}

\* cleanup_old_data: it deletes the rows of the logs table older than the
\* retention; the orders table is left as it is.
CleanupOldData(rows) == rows

\* A maintenance that gets the broker's order id from the ledger row and
\* writes the polled status back into it (the status update_order_status
\* gives an order that is not filled is PENDING): C31 rests on the ledger
\* taking no status from the poll.
MaintenanceStoringPolled ==
    /\ lpc = "maintenance"
    /\ maint' = [ran |-> TRUE, due |-> DueOrders, polled |-> DueOrders,
                 purged |-> TRUE, raised |-> FALSE]
    /\ orders' = [i \in 1 .. Len(orders) |->
                     IF orders[i].op_id \in DueOrders
                     THEN [orders[i] EXCEPT !.status = "pending"]
                     ELSE orders[i]]
    /\ pending' = [pending EXCEPT ![1] = {}]
    /\ lpc' = "top"
    /\ UNCHANGED << running, shutdown_requested, delay, streak, gwVars, sdVars,
                    book, polls >>
    /\ UNCHANGED << market_hours_only, rpc, metrics, consecutive_errors, cyc, retval,
                    curve, win, decisions >>
    /\ UNCHANGED << broker, pc, call, plan, seen, result, returns, faultOps, raceOps,
                    ncalls, io >>

\* _periodic_maintenance.  The first recent order with status submitted or
\* pending ends it: the dict has no key "alpaca_order_id", the KeyError is
\* caught by the method's except branch and only logged, and neither
\* update_order_status nor cleanup_stale_operations is called.  Without
\* such an order cleanup_stale_operations empties pending_operations, and
\* cleanup_old_data runs when a day has passed since last_run_time (set by
\* the first fully successful cycle).
Maintenance ==
    /\ lpc = "maintenance"
    /\ IF DueOrders # {}
       THEN /\ maint' = [ran |-> TRUE, due |-> DueOrders, polled |-> {},
                         purged |-> FALSE, raised |-> TRUE]
            /\ UNCHANGED << orders, pending >>
       ELSE /\ maint' = [ran |-> TRUE, due |-> {}, polled |-> {},
                         purged |-> TRUE, raised |-> FALSE]
            /\ pending' = [pending EXCEPT ![1] = {}]
            /\ \E day_passed \in BOOLEAN :
                  orders' = IF metrics.successful_runs > 0 /\ day_passed
                            THEN CleanupOldData(orders)
                            ELSE orders
    /\ lpc' = "top"
    /\ UNCHANGED << running, shutdown_requested, delay, streak, gwVars, sdVars,
                    book, polls >>
    /\ UNCHANGED << market_hours_only, rpc, metrics, consecutive_errors, cyc, retval,
                    curve, win, decisions >>
    /\ UNCHANGED << broker, pc, call, plan, seen, result, returns, faultOps, raceOps,
                    ncalls, io >>

\* The loop is left: finally: await self._shutdown()
LoopExit ==
    /\ lpc = "top"
    /\ LoopExits
    /\ lpc' = "shutdown"
    /\ UNCHANGED << running, shutdown_requested, delay, streak, gwVars, sdVars, mtVars >>
    /\ UNCHANGED << market_hours_only, rpc, metrics, consecutive_errors, cyc, retval,
                    curve, win, decisions, execVars >>

\* _shutdown: cancel_pending_orders when settings has a true
\* cancel_orders_on_shutdown (each cancel may fail and is then passed over),
\* the session summary, and in the finally self.running = False.
Shutdown ==
    /\ lpc = "shutdown"
    /\ IF HasSetting("cancel_orders_on_shutdown") /\ cancel_orders_on_shutdown
       THEN \E left \in SUBSET open_orders : open_orders' = left
       ELSE UNCHANGED open_orders
    /\ lpc' = "stopped"
    /\ running' = FALSE
    /\ UNCHANGED << shutdown_requested, delay, streak, gwVars, cancel_orders_on_shutdown,
                    mtVars >>
    /\ UNCHANGED << market_hours_only, rpc, metrics, consecutive_errors, cyc, retval,
                    curve, win, decisions, execVars >>

NextLoop ==
    \/ LoopStart
    \/ RequestStop
    \/ LoopRunOnce
    \/ LoopFetchAccount
    \/ UpdateEquityCurve
    \/ KillSwitchStep
    \/ LoopDecide
    \/ DecideNone
    \/ DecideRaises
    \/ SkipNoTrade
    \/ FinishCycle
    \/ EndCycle
    \/ LoopSleep
    \/ Maintenance
    \/ LoopExit
    \/ Shutdown

\* The order a former session left open at the broker.
OpenAtStart == {"order-1"}

InitLoop ==
    /\ InitExec
    /\ InitRunner
    /\ cancel_orders_on_shutdown \in BOOLEAN
    /\ open_orders = OpenAtStart
    /\ book = << >>
    /\ market_hours_only \in BOOLEAN
    /\ curve = << >>

SpecLoop == InitLoop /\ [][NextLoop]_vars

(***************************************************************************)
(* SpecMaint: run_continuous on cycles that trade, so that the maintenance *)
(* step meets a ledger with rows.                                          *)
(***************************************************************************)
MaxMaintCycles == 2    \* cycles the loop may start (SpecMaint)

MaintDecisions ==
    {<< Item("AAPL", "long",
             Some(OrderPlanOf("market", None, "2% below entry", "2.0R target", 50))) >>,
     << Item("AAPL", "no-trade", None) >>}

MaintRunOnce ==
    /\ lpc = "top"
    /\ ~LoopExits
    /\ RunOnceEntry(MaxMaintCycles)
    /\ lpc' = "cycle"
    /\ UNCHANGED << running, shutdown_requested, delay, streak, gwVars, sdVars, mtVars >>

MaintFetchAccount == lpc = "cycle" /\ FetchAccountFrom(SeqAccounts)
MaintDecide == lpc = "cycle" /\ DecideFrom(MaintDecisions)

NextMaint ==
    \/ LoopStart
    \/ RequestStop
    \/ MaintRunOnce
    \/ MaintFetchAccount
    \/ UpdateEquityCurve
    \/ KillSwitchStep
    \/ MaintDecide
    \/ SkipNoTrade
    \/ NoQuote
    \/ Invoke
    \/ CheckLedger(1)
    \/ Validate(1)
    \/ Submit(1)
    \/ Store(1)
    \/ Collect
    \/ FinishCycle
    \/ EndCycle
    \/ LoopSleep
    \/ Maintenance
    \/ LoopExit
    \/ Shutdown

SpecMaint == InitItems /\ [][NextMaint]_vars

\* run_continuous is a coroutine the event loop keeps running: a step that
\* can be taken is taken.
SpecLoopFair == SpecLoop /\ WF_vars(NextLoop)

(***************************************************************************)
(* The Broker Gateway's calls (alpaca_client.py): SpecGateway.  The        *)
(* underlying client call fails or returns at each attempt as it likes.    *)
(***************************************************************************)
MaxGwCalls == 2    \* gateway calls followed to their return

GatewayCalls ==
    {"get_account", "get_positions", "get_position", "submit_order",
     "get_orders", "cancel_order", "is_market_open"}

\* The methods that hand their client call to _retry_operation.
UsesRetryHelper(name) == name # "is_market_open"

GwReturn(name, attempts, waits, outcome, valid) ==
    /\ gwlog' = Append(gwlog, [name |-> name, attempts |-> attempts,
                               waits |-> waits, outcome |-> outcome,
                               valid |-> valid])
    /\ gw' = NoGwCall

\* A gateway method is entered.  submit_order checks its arguments first
\* and answers None for bad ones before it tries anything.
GwCall ==
    /\ gw.name = ""
    /\ Len(gwlog) < MaxGwCalls
    /\ \E name \in GatewayCalls, valid \in BOOLEAN :
          /\ ~valid => name = "submit_order"
          /\ IF valid
             THEN /\ gw' = [name |-> name, attempts |-> 0, waits |-> << >>]
                  /\ UNCHANGED gwlog
             ELSE GwReturn(name, 0, << >>, "absent", FALSE)
    /\ UNCHANGED << loopVars, sdVars, mtVars, market_hours_only, rpc, metrics, consecutive_errors, cyc,
                    retval, curve, win, decisions, execVars >>

\* The client call returns: the method returns its value.
GwAttemptReturns ==
    /\ gw.name # ""
    /\ GwReturn(gw.name, gw.attempts + 1, gw.waits, "value", TRUE)
    /\ UNCHANGED << loopVars, sdVars, mtVars, market_hours_only, rpc, metrics, consecutive_errors, cyc,
                    retval, curve, win, decisions, execVars >>

\* The client call raises.  _retry_operation sleeps retry_delay * 2^attempt
\* and tries again, or gives None after the last attempt; is_market_open
\* catches the exception itself and answers False.
GwAttemptRaises ==
    /\ gw.name # ""
    /\ IF UsesRetryHelper(gw.name) /\ gw.attempts < max_retries
       THEN /\ gw' = [gw EXCEPT !.attempts = @ + 1,
                                !.waits = Append(@, retry_delay * Pow2(gw.attempts))]
            /\ UNCHANGED gwlog
       ELSE GwReturn(gw.name, gw.attempts + 1, gw.waits, "absent", TRUE)
    /\ UNCHANGED << loopVars, sdVars, mtVars, market_hours_only, rpc, metrics, consecutive_errors, cyc,
                    retval, curve, win, decisions, execVars >>

NextGateway == GwCall \/ GwAttemptReturns \/ GwAttemptRaises

SpecGateway == Init /\ [][NextGateway]_vars

(***************************************************************************)
(* DatabaseStore.update_equity_curve called with any equity: SpecCurve.    *)
(***************************************************************************)
MaxPoints == 3    \* rows inserted

\* -$200, -$100, $0, $100, $200
CurveEquities == {-20000, -10000, 0, 10000, 20000}

InsertEquityPoint ==
    /\ Len(curve) < MaxPoints
    /\ \E total_equity \in CurveEquities :
          curve' = Append(curve, EquityPoint(total_equity))
    /\ UNCHANGED << outerVars, market_hours_only, rpc, metrics, consecutive_errors,
                    cyc, retval, win, decisions, execVars >>

NextCurve == InsertEquityPoint

SpecCurve == Init /\ [][NextCurve]_vars

(***************************************************************************)
(* OrderExecutor.update_order_status on the broker's orders (executor.py,  *)
(* alpaca_client.py): SpecBook.                                            *)
(***************************************************************************)
MaxBook == 2     \* orders the broker holds
MaxPolls == 2    \* update_order_status calls made

\* An AlpacaOrder as get_orders builds it, reduced to what the poll reads.
BookOrders(id) ==
    {[id |-> id, status |-> "new", filled_qty |-> 0, filled_price |-> None],
     [id |-> id, status |-> "partially_filled", filled_qty |-> 40,
      filled_price |-> Some(10000)],
     [id |-> id, status |-> "filled", filled_qty |-> 120,
      filled_price |-> Some(10000)],
     [id |-> id, status |-> "canceled", filled_qty |-> 0, filled_price |-> None]}

Books ==
    UNION {{b \in [1 .. n -> UNION {BookOrders(id) : id \in 1 .. n}] :
               \A i \in 1 .. n : b[i].id = i} : n \in 0 .. MaxBook}

\* get_orders(limit=limit), without a status and without symbols: at most
\* limit of the broker's orders.
GetOrders(limit) == SubSeq(book, 1, Min2(limit, Len(book)))

\* update_order_status(order_id): the order is looked for in
\* get_orders(limit=1); FILLED for status "filled", else PENDING; None when
\* the order is not among those fetched.
UpdateOrderStatus(order_id) ==
    LET fetched == GetOrders(1)
        hits == {i \in 1 .. Len(fetched) : fetched[i].id = order_id}
    IN  IF hits = {} THEN None
        ELSE LET order == fetched[CHOOSE i \in hits : \A j \in hits : i <= j]
             IN  Some([op_id |-> "",
                       status |-> IF order.status = "filled" THEN "filled"
                                  ELSE "pending",
                       order_id |-> Some(order_id),
                       filled_qty |-> order.filled_qty,
                       filled_price |-> order.filled_price,
                       error_message |-> None])

\* A caller polls one of the orders the broker holds.
PollOrderStatus ==
    /\ Len(polls) < MaxPolls
    /\ \E i \in 1 .. Len(book) :
          polls' = Append(polls, [order_id |-> book[i].id,
                                  result |-> UpdateOrderStatus(book[i].id)])
    /\ UNCHANGED << loopVars, gwVars, sdVars, maint, book >>
    /\ UNCHANGED << market_hours_only, rpc, metrics, consecutive_errors, cyc, retval,
                    curve, win, decisions, execVars >>

NextBook == PollOrderStatus

InitBook ==
    /\ InitExec
    /\ InitRunner
    /\ cancel_orders_on_shutdown = FALSE
    /\ open_orders = {}
    /\ book \in Books
    /\ market_hours_only = TRUE
    /\ curve = << >>

SpecBook == InitBook /\ [][NextBook]_vars

(***************************************************************************)
(* Claims about the executor and the ledger.                               *)
(***************************************************************************)
SameResult(a, b) ==
    /\ a.op_id = b.op_id
    /\ a.status = b.status
    /\ a.order_id = b.order_id

\* C1: execute_decision invoked twice in sequence with the same run id and
\* decision item (no ledger fault, no crash, no overlapping call for the
\* operation id) places at most one broker order, and once a call has
\* returned a result every later call returns that same stored result
\* (same operation id, status and broker order id).
C1_SequentialIdempotent ==
    \A op \in OpIds \ (faultOps \cup raceOps) :
        /\ Submitted(op) <= 1
        /\ \A i, j \in 1 .. Len(returns[op]) :
              (i < j /\ ~IsNone(returns[op][i])) =>
                  /\ ~IsNone(returns[op][j])
                  /\ SameResult(Get(returns[op][j]), Get(returns[op][i]))

\* A second call has returned the result the first one stored.
C1_Witness ==
    \E op \in OpIds \ (faultOps \cup raceOps) :
        /\ Len(returns[op]) >= 2
        /\ ~IsNone(returns[op][1])
        /\ Get(returns[op][1]).status = "submitted"
        /\ Submitted(op) = 1

\* C2: no two rows of the ledger share an operation id.
C2_UniqueOpId ==
    \A i, j \in 1 .. Len(orders) : orders[i].op_id = orders[j].op_id => i = j

\* A call has tried to insert a second row for an operation id that had
\* one: it holds a result of its own submission that is not the row's.
C2_Witness ==
    \E e \in Executors :
        /\ pc[e] = "done"
        /\ ~IsNone(plan[e])
        /\ ~IsNone(result[e])
        /\ IsOperationExecuted(CallOp(e))
        /\ FirstOrder(CallOp(e)).alpaca_order_id # Get(result[e]).order_id

\* C3: with two executors on one ledger and one broker, and no ledger fault
\* or crash, at most one broker order is placed per operation id.
C3_ConcurrentAtMostOne ==
    \A op \in OpIds \ faultOps : Submitted(op) <= 1

\* C4: without overlapping calls, at most one broker order is placed per
\* operation id, also across a crash or a failed ledger read or write
\* between the broker's acceptance and the persisted result.
C4_AtMostOneAcrossFaults ==
    \A op \in OpIds \ raceOps : Submitted(op) <= 1

\* C5: when execute_decision returns a result after attempting a submission,
\* the ledger holds a row for the operation id with that outcome.
C5_RecordedBeforeReturn ==
    \A e \in Executors :
        (pc[e] = "done" /\ ~IsNone(plan[e]) /\ ~IsNone(result[e])) =>
            \E i \in 1 .. Len(orders) :
                /\ orders[i].op_id = CallOp(e)
                /\ orders[i].status = Get(result[e]).status
                /\ orders[i].alpaca_order_id = Get(result[e]).order_id

\* The estimated cost of the call's plan as the claim words it: quantity
\* times the limit price of a limit order, else times the current price.
ClaimedCost(e) ==
    LET op == Get(Get(call[e]).decision.order_plan)
    IN  Get(plan[e]).quantity *
          (IF op.type = "limit" /\ ~Falsy(op.limit_price)
           THEN Get(op.limit_price) ELSE Get(call[e]).current_price)

\* The call's plan passed validation and the broker took its order.
Placed(e) == pc[e] = "store" /\ Get(result[e]).status = "submitted"

\* C6: a plan that goes to submission costs no more than the buying power
\* the broker reported to its validation.
C6_BuyingPowerGate ==
    \A e \in Executors :
        Placed(e) => ClaimedCost(e) <= Get(Get(seen[e]).account).buying_power

\* A plan costing more than the reported buying power was turned away
\* with nothing submitted.
C6_Witness ==
    /\ pc[1] = "done"
    /\ ~IsNone(seen[1])
    /\ Get(seen[1]).gate = "buying_power"
    /\ ClaimedCost(1) > Get(Get(seen[1]).account).buying_power
    /\ IsNone(result[1])
    /\ broker = << >>

\* C7: the dollar risk |price - stop price| x quantity of a plan that goes
\* to submission is at most equity x risk_per_position_pct / 100, with the
\* equity the broker reported to the validation.
C7_RiskCap ==
    \A e \in Executors :
        (Placed(e) /\ ~IsNone(Get(plan[e]).stop_price)) =>
            Abs(Get(call[e]).current_price - Get(Get(plan[e]).stop_price))
                * Get(plan[e]).quantity * 10000
              <= Get(Get(seen[e]).account).equity * risk_per_position_pct

\* C8: for equity > 0 and price > 0 sizing either fails (no plan) or gives a
\* quantity between 1 and floor(equity x 0.10 / price).
C8_SizingBounds ==
    \A e \in Executors :
        (/\ pc[e] \in {"validate", "submit", "store", "done"}
         /\ ~IsNone(call[e])
         /\ Get(call[e]).current_equity > 0
         /\ Get(call[e]).current_price > 0
         /\ ~IsNone(plan[e])) =>
            /\ 1 <= Get(plan[e]).quantity
            /\ Get(plan[e]).quantity * MaxEquityShare * Get(call[e]).current_price
                 <= Get(call[e]).current_equity

(***************************************************************************)
(* Claims about the runner's kill switch.                                  *)
(***************************************************************************)

\* The rows of the window the check read, and its peak stated on its own:
\* a total_equity of the window that none exceeds.
Window == win .. Len(curve)
IsPeak(x) ==
    /\ \E i \in Window : curve[i].total_equity = x
    /\ \A i \in Window : curve[i].total_equity <= x

\* C9: the kill switch is active exactly when the window is not empty, its
\* peak total equity is positive and (peak - current) / peak x 100 is
\* strictly above drawdown_kill_switch_pct; with threshold 6 and peak
\* $120,000 it is active at $110,000 and inactive at $115,000.
C9_KillSwitchExact ==
    /\ ~IsNone(cyc.kill) =>
          (Get(cyc.kill) <=>
              \E x \in RunnerEquities :
                  /\ IsPeak(x)
                  /\ x > 0
                  /\ (x - Get(cyc.account).equity) * 100
                        > drawdown_kill_switch_pct * x)
    /\ CheckKillSwitch(<< 12000000, 11000000 >>, 11000000)
    /\ ~CheckKillSwitch(<< 12000000, 11500000 >>, 11500000)

\* The check has run on a window whose peak is $120,000 with the equity at
\* $110,000, and the switch is active.
C9_Witness ==
    /\ cyc.kill = Some(TRUE)
    /\ IsPeak(12000000)
    /\ Get(cyc.account).equity = 11000000

\* C10: a cycle whose kill switch is active asks for no decision, invokes
\* the executor for nothing, places no broker order and returns True.
C10_KillSwitchSkipsTrading ==
    cyc.kill = Some(TRUE) =>
        /\ rpc = "ret"
        /\ retval = Some(TRUE)
        /\ cyc.llm_calls = 0
        /\ cyc.exec_calls = 0
        /\ Len(broker) = cyc.broker_before

\* A cycle that the kill switch ended has returned.
C10_Witness ==
    /\ rpc = "ret"
    /\ cyc.kill = Some(TRUE)
    /\ retval = Some(TRUE)
    /\ metrics.total_runs = 1

(***************************************************************************)
(* Claims about the supervisory loop.                                      *)
(***************************************************************************)

\* C11: after k failed cycles in a row, whatever their cause, the loop
\* sleeps base_backoff x 2^k seconds, the exponent capped at 5.
C11_BackoffGrowth ==
    (lpc = "maintenance" /\ retval = Some(FALSE)) =>
        delay = Some(base_backoff_seconds
                       * Pow2(Min2(streak, BackoffExponentCap)))

\* C12: once max_consecutive_errors cycles in a row have failed, whatever
\* their cause, the loop starts no further cycle.
C12_StopsAfterMaxFailures ==
    streak >= max_consecutive_errors => lpc # "cycle"

\* C13: in the equity table peak_equity never decreases from a row to a
\* later one, and each row's peak_equity is at least its total_equity.
C13_PeakMonotone ==
    /\ \A i, j \in 1 .. Len(curve) :
          i < j => curve[i].peak_equity <= curve[j].peak_equity
    /\ \A i \in 1 .. Len(curve) : curve[i].peak_equity >= curve[i].total_equity

\* The decision of the cycle has only no-trade items.
OnlyNoTrade ==
    /\ ~IsNone(cyc.decision)
    /\ \A i \in 1 .. Len(Get(cyc.decision)) :
          Get(cyc.decision)[i].action = "no-trade"

\* C14: a cycle whose decision has only no-trade items returns True, has
\* invoked the executor for nothing and has its decision in the store.
C14_NoTradePassThrough ==
    (OnlyNoTrade /\ rpc = "ret") =>
        /\ retval = Some(TRUE)
        /\ cyc.exec_calls = 0
        /\ \E i \in 1 .. Len(decisions) : decisions[i] = cyc.run_id

\* C15: a cycle in which a component raised into run_once returns False
\* with consecutive_errors one above its value at the start of the cycle.
C15_ExceptionCounted ==
    cyc.raised =>
        /\ rpc = "ret"
        /\ retval = Some(FALSE)
        /\ consecutive_errors = cyc.errors_before + 1

\* A cycle in which the decision agent raised, after an earlier failure.
C15_Witness ==
    /\ cyc.raised
    /\ cyc.llm_calls = 1
    /\ cyc.errors_before = 1
    /\ rpc = "ret"

\* C16: every gateway call makes at most max_retries + 1 attempts, waits
\* retry_delay, 2 x retry_delay, 4 x retry_delay, ... between them, and
\* gives the absent result only after max_retries + 1 failed attempts.
C16_BoundedRetry ==
    \A k \in 1 .. Len(gwlog) :
        LET c == gwlog[k]
        IN  /\ c.attempts <= max_retries + 1
            /\ c.valid => Len(c.waits) = c.attempts - 1
            /\ \A i \in 1 .. Len(c.waits) : c.waits[i] = retry_delay * Pow2(i - 1)
            /\ (c.valid /\ c.outcome = "absent") => c.attempts = max_retries + 1

\* C17: a call that finds the ledger holding a record for its operation id
\* (the reads not failing) is over in that step, with no broker order placed
\* and no ledger row written, and returns the record's status, broker order
\* id and error message.
C17_ReplayFrame ==
    [][\A e \in Executors :
          (/\ pc[e] = "check"
           /\ pc'[e] # "check"
           /\ IsOperationExecuted(CallOp(e))
           /\ CallOp(e) \notin faultOps') =>
              /\ pc'[e] = "done"
              /\ orders' = orders
              /\ broker' = broker
              /\ ~IsNone(result'[e])
              /\ Get(result'[e]).status = FirstOrder(CallOp(e)).status
              /\ Get(result'[e]).order_id = FirstOrder(CallOp(e)).alpaca_order_id
              /\ Get(result'[e]).error_message = FirstOrder(CallOp(e)).error_message]_vars

\* A call has replayed a rejected record.
C17_Witness ==
    \E e \in Executors :
        /\ pc[e] = "done"
        /\ IsNone(plan[e])
        /\ ~IsNone(result[e])
        /\ Get(result[e]).status = "rejected"
        /\ Get(result[e]).error_message = Some("Order submission failed")
        /\ CallOp(e) \notin faultOps

\* The call of executor e has got no further than the validation.
NotPastValidation(e) ==
    \/ pc[e] \in {"check", "validate"}
    \/ pc[e] = "done" /\ IsNone(result[e])

\* C18: as long as every call for an operation id ended in a failed sizing
\* or a failed gate (crashes and ledger faults aside), the broker has no
\* order and the ledger no row for it, so that the next call is sized and
\* validated afresh.
C18_FailedGateLeavesNoTrace ==
    \A op \in OpIds \ faultOps :
        (/\ \A i \in 1 .. Len(returns[op]) : IsNone(returns[op][i])
         /\ \A e \in Executors :
               (pc[e] # "idle" /\ CallOp(e) = op) => NotPastValidation(e)) =>
            /\ Submitted(op) = 0
            /\ ~IsOperationExecuted(op)

\* A call refused by a gate returned None and the next call for the same
\* operation id placed an order.
C18_Witness ==
    \E op \in OpIds \ (faultOps \cup raceOps) :
        /\ Len(returns[op]) = 2
        /\ IsNone(returns[op][1])
        /\ ~IsNone(returns[op][2])
        /\ Get(returns[op][2]).status = "submitted"
        /\ Submitted(op) = 1

\* C19: an order reaches the broker only if the validation fetched the
\* account, saw fewer than max_positions open positions and saw no open
\* position for the symbol.
C19_PositionGates ==
    \A e \in Executors :
        Placed(e) =>
            /\ ~IsNone(Get(seen[e]).account)
            /\ ~IsNone(Get(seen[e]).npos)
            /\ Get(Get(seen[e]).npos) < max_positions
            /\ Get(seen[e]).existing = Some(FALSE)

\* A plan was turned away at max_positions open positions with nothing
\* submitted.
C19_Witness ==
    /\ pc[1] = "done"
    /\ ~IsNone(seen[1])
    /\ Get(seen[1]).gate = "max_positions"
    /\ Get(seen[1]).npos = Some(max_positions)
    /\ IsNone(result[1])
    /\ broker = << >>

\* C20: after every cycle that returned True the consecutive-failure
\* counter is zero and the loop sleeps loop_interval_seconds.
C20_SuccessResets ==
    (lpc = "maintenance" /\ retval = Some(TRUE)) =>
        /\ consecutive_errors = 0
        /\ delay = Some(loop_interval_seconds)

\* C21: whenever run_once returns failure, failed_runs and
\* consecutive_errors are each one above their value at the start of the
\* cycle, whatever made the cycle fail.
C21_FailureCounted ==
    (rpc = "ret" /\ retval = Some(FALSE)) =>
        /\ metrics.failed_runs = cyc.failed_before + 1
        /\ consecutive_errors = cyc.errors_before + 1

\* C22: with market-hours-only mode set and the market reported closed,
\* run_once returns True without fetching the account, requesting a
\* decision or invoking the executor, and leaves failed_runs and
\* consecutive_errors as they were.
C22_MarketClosedNoOp ==
    (rpc = "ret" /\ market_hours_only /\ cyc.market_open = Some(FALSE)) =>
        /\ retval = Some(TRUE)
        /\ cyc.steps = << >>
        /\ Len(broker) = cyc.broker_before
        /\ metrics.failed_runs = cyc.failed_before
        /\ consecutive_errors = cyc.errors_before

\* C23: within a cycle the account is fetched, then the equity curve is
\* updated, then the kill switch is evaluated, then a decision is requested,
\* then the executor is invoked; an executor call or a broker order of the
\* cycle comes only after the cycle's kill switch was found inactive.
StepOrder == << "account", "equity", "kill", "decide" >>

C23_StepOrder ==
    /\ \A i \in 1 .. Len(cyc.steps) :
          cyc.steps[i] = IF i <= Len(StepOrder) THEN StepOrder[i] ELSE "exec"
    /\ (rpc # "idle" /\ (Len(broker) > cyc.broker_before \/ pc[1] # "idle")) =>
          cyc.kill = Some(FALSE)

C23_Witness ==
    /\ rpc = "ret"
    /\ cyc.steps = StepOrder \o << "exec" >>
    /\ Len(broker) = cyc.broker_before + 1

\* C24: a cycle that got a Decision from the generator has handed it to
\* store_trading_decision exactly once, and a cycle without a Decision not
\* at all, whatever became of the Decision's items.
C24_DecisionStoredOnce ==
    cyc.store_calls = IF IsNone(cyc.decision) THEN 0 ELSE 1

C24_Witness ==
    /\ rpc = "ret"
    /\ cyc.exec_calls = 1
    /\ Len(broker) = cyc.broker_before
    /\ cyc.store_calls = 1

C26_NoQuoteSkips ==
    (rpc = "ret" /\ cyc.skipped # {}) =>
        LET d == Get(cyc.decision)
            called == {cyc.invoked[i] : i \in 1 .. Len(cyc.invoked)}
        IN  /\ retval = Some(TRUE)
            /\ cyc.skipped \cap called = {}
            /\ \A k \in 1 .. Len(d) :
                  d[k].action # "no-trade" => k \in cyc.skipped \cup called
            /\ cyc.exec_calls = Cardinality(called)

C26_Witness ==
    /\ rpc = "ret"
    /\ cyc.skipped = {1}
    /\ cyc.invoked = << 2 >>
    /\ Len(broker) = cyc.broker_before + 1
    /\ retval = Some(TRUE)

\* C27: once shutdown has been requested, run_continuous starts no new
\* cycle and enters no further inter-cycle or back-off sleep.
C27_ShutdownPolled ==
    [][shutdown_requested =>
          /\ ~(lpc = "top" /\ lpc' = "cycle")
          /\ ~(lpc = "cycle" /\ lpc' = "maintenance")]_vars

\* C28: once shutdown is requested, run_continuous reaches the stopped
\* state with running = False, and with no order left open at the broker
\* when the operator configured cancel-on-shutdown.
C28_ShutdownCompletes ==
    shutdown_requested ~>
        (/\ lpc = "stopped"
         /\ ~running
         /\ cancel_orders_on_shutdown => open_orders = {})

\* C29: a call that has got past validation has issued exactly one
\* submit_order, for the entry order (buy for long, sell for short, market
\* or limit), and exactly one ledger write by the time it returns; a call
\* that stopped earlier has issued neither.
ReachedSubmission(e) == ~IsNone(seen[e]) /\ Get(seen[e]).gate = "ok"

C30_RecordStatus ==
    \A i \in 1 .. Len(orders) :
        /\ orders[i].status \in {"submitted", "rejected", "failed"}
        /\ orders[i].status = "submitted" <=> ~IsNone(orders[i].alpaca_order_id)
        /\ orders[i].status \in {"rejected", "failed"} =>
              /\ ~IsNone(orders[i].error_message)
              /\ IsNone(orders[i].alpaca_order_id)

C30_Witness ==
    /\ \E i \in 1 .. Len(orders) : orders[i].status = "submitted"
    /\ \E i \in 1 .. Len(orders) : orders[i].status = "rejected"

\* C39: after every completed cycle, whatever the outcomes so far,
\* total_runs = successful_runs + failed_runs.
C39_CountersAddUp ==
    (rpc = "idle" /\ metrics.total_runs > 0) =>
        metrics.total_runs = metrics.successful_runs + metrics.failed_runs

C36_OneStopDistance ==
    \A e \in Executors :
        (~IsNone(plan[e]) /\ Get(Get(call[e]).decision.order_plan).stop_logic # "") =>
            LET c == Get(call[e])
                op == Get(c.decision.order_plan)
                p == Get(plan[e])
            IN  /\ SizingStopDistance(op) = StopPriceDistance(op.stop_logic)
                /\ ReachedSubmission(e) =>
                      p.risk_amount * 10000
                          = p.quantity * c.current_price * SizingStopDistance(op)

\* C37: every execute_decision call of a cycle gets the cycle's run id, so
\* the operation ids of the cycle differ in symbol or action only, and the
\* broker receives at most one order per (symbol, action) in the cycle,
\* also when the decision lists the pair more than once.
CycleOrders == {i \in 1 .. Len(broker) : i > cyc.broker_before}

C37_OneOrderPerPair ==
    rpc # "idle" =>
        /\ pc[1] # "idle" => Get(call[1]).run_id = cyc.run_id
        /\ \A i \in CycleOrders : broker[i].op_id[1] = cyc.run_id
        /\ \A i, j \in CycleOrders :
              (/\ broker[i].op_id[2] = broker[j].op_id[2]
               /\ broker[i].op_id[3] = broker[j].op_id[3]) => i = j

C37_Witness ==
    /\ rpc = "ret"
    /\ Len(Get(cyc.decision)) = 2
    /\ Get(cyc.decision)[1] = Get(cyc.decision)[2]
    /\ cyc.invoked = << 1, 2 >>
    /\ Cardinality(CycleOrders) = 1
    /\ Len(returns[<< cyc.run_id, "AAPL", "long" >>]) = 2

\* C38: the kill switch by itself neither blocks nor fails a cycle.  A
\* failed append of the equity point leaves the cycle's outcome and the
\* counters alone and the cycle goes on to the kill-switch check; a check
\* on an empty history, or whose read of the history failed, answers
\* inactive, raises nothing and the cycle goes on to the decision.
C38_KillSwitchFailsOpen ==
    [][/\ (rpc = "equity" /\ rpc' # "equity") =>
              /\ rpc' = "kill"
              /\ UNCHANGED << metrics, consecutive_errors, retval >>
       /\ (/\ rpc = "kill"
           /\ rpc' # "kill"
           /\ (Len(GetEquityCurve) = 0 \/ "equity_read" \in cyc'.faults)) =>
              /\ cyc'.kill = Some(FALSE)
              /\ ~cyc'.raised
              /\ rpc' = "decide"
              /\ UNCHANGED << metrics, consecutive_errors, retval >>]_vars

\* The append and the read both failed in a cycle whose equity, $110,000,
\* is more than 6% below the table's peak of $120,000; the cycle traded and
\* succeeded.
C38_Witness ==
    /\ rpc = "ret"
    /\ retval = Some(TRUE)
    /\ cyc.faults = {"equity_append", "equity_read"}
    /\ cyc.kill = Some(FALSE)
    /\ IsPeak(12000000)
    /\ Get(cyc.account).equity = 11000000
    /\ Len(broker) = cyc.broker_before + 1

(***************************************************************************)
(* Claims about the ledger's rows, the maintenance step and the order      *)
(* status poll.                                                            *)
(***************************************************************************)

\* pending < submitted < filled, cancelled, rejected, failed
Rank(status) ==
    CASE status = "pending"   -> 0
      [] status = "submitted" -> 1
      [] OTHER                -> 2

\* C31: an operation record is created once and stays: no step of the
\* executor, of the runner's maintenance or of the store removes a row,
\* gives it another operation id or moves its status backwards in
\* pending -> submitted -> filled | cancelled | rejected | failed, and no
\* operation id gets a second row.
C31_StatusForward ==
    [][/\ Len(orders') >= Len(orders)
       /\ \A i \in 1 .. Len(orders) :
             /\ orders'[i].op_id = orders[i].op_id
             /\ Rank(orders'[i].status) >= Rank(orders[i].status)
       /\ \A i, j \in 1 .. Len(orders') :
             orders'[i].op_id = orders'[j].op_id => i = j]_vars

\* The maintenance step has met a submitted row, a later cycle has added a
\* row, and the first row is still there as submitted.
C31_Witness ==
    /\ maint.ran
    /\ maint.due # {}
    /\ Len(orders) = 2
    /\ orders[1].status = "submitted"
    /\ lpc = "top"

\* C35: the maintenance step after a cycle runs to completion: it calls
\* update_order_status for each recent ledger order whose status is
\* submitted or pending and then purges pending_operations, also when
\* such orders exist.
C35_MaintenanceCompletes ==
    maint.ran =>
        /\ ~maint.raised
        /\ maint.polled = maint.due
        /\ maint.purged

\* C32: a call whose insert met an existing row for its operation id takes
\* the operation as already handled: once its ledger write is over and the
\* ledger holds a row for the operation id, the result it returns is the
\* stored one (same operation id, status and broker order id).
C32_DuplicateIsHandled ==
    \A e \in Executors :
        (/\ pc[e] = "done"
         /\ io[e].writes = 1
         /\ ~IsNone(result[e])
         /\ CallOp(e) \notin faultOps
         /\ IsOperationExecuted(CallOp(e))) =>
            SameResult(Get(result[e]), Get(GetExecutionResult(CallOp(e))))

\* C33: for every order id the broker holds, update_order_status returns a
\* result that reflects the order's fill state (FILLED exactly when the
\* broker reports the order filled, with its filled quantity and price),
\* and the ledger is left as it was.
BookOrder(order_id) == book[CHOOSE i \in 1 .. Len(book) : book[i].id = order_id]

C33_PollReflectsBroker ==
    /\ \A k \in 1 .. Len(polls) :
          LET order == BookOrder(polls[k].order_id)
              r == polls[k].result
          IN  /\ ~IsNone(r)
              /\ Get(r).status = "filled" <=> order.status = "filled"
              /\ Get(r).filled_qty = order.filled_qty
              /\ Get(r).filled_price = order.filled_price
    /\ polls # << >> => orders = << >>

====
